---- MODULE Spec2Model ----
(***************************************************************************)
(* Model of the recipe chatbot repository.                                 *)
(*                                                                         *)
(*   backend/utils.py            get_agent_response (the chat responder)   *)
(*   scripts/gen_synthetic_evals.py   main, should_keep, get_query,        *)
(*                                    write_queries, load_queries          *)
(*                                                                         *)
(* The two programs share nothing; each has its own specification          *)
(* (SpecChat, SpecGen) that leaves the other program's variables alone.    *)
(***************************************************************************)
EXTENDS Naturals, Sequences, FiniteSets

\* ------------------------------------------------------------------ bounds
MaxHist == 2        \* longest input history handed to get_agent_response
MaxReply == 2       \* longest raw reply text of the remote model
MaxTurns == 2       \* calls the caller makes in a row
MaxDims == 2        \* longest list generate_dimensions answers with

\* =========================================================================
\* Part 1: backend/utils.py
\* =========================================================================

VARIABLES
    heap,              \* the Python lists alive in the process: heap[r] is list r
    messages,          \* the caller's argument: a reference into heap
    before,            \* what the caller's list held when the call started
    current_messages,  \* local of get_agent_response: a reference, NoRef if unset
    updated_messages,  \* the returned reference, NoRef while nothing is returned
    raw_reply,         \* completion["choices"][0]["message"]["content"], unstripped
    calls,             \* litellm.completion calls made by the current invocation
    error,             \* the exception that left get_agent_response, "none" if none
    turn,              \* invocations started so far
    cpc                \* "idle" | "called" | "returned" | "raised"

chatVars == <<heap, messages, before, current_messages, updated_messages,
              raw_reply, calls, error, turn, cpc>>

\* State of scripts/gen_synthetic_evals.py (Part 2).
VARIABLES
    args,              \* parse_args(): the flags of this run
    gpc,               \* position of main
    examples,          \* load_queries(args.examples)
    dims_generated,    \* what generate_dimensions returned
    dimensions,        \* `dimensions` once line 213-215 are done
    queries_generated, \* the list built by line 219-221
    queries,           \* `queries` once line 219-223 are done
    idx,               \* position of the running list comprehension (1-based)
    acc,               \* the list the running comprehension has built so far
    made_by,           \* per generated query: the strategy that produced it
    asked_dims,        \* should_keep prompts over dimensions: item and answer
    asked_queries,     \* should_keep prompts over queries: item and answer
    file,              \* content of the --output path: rows of cells, <<>> if absent
    writes,            \* invocations of write_queries
    loaded             \* load_queries(output) by a later run, NotLoaded before

genVars == <<args, gpc, examples, dims_generated, dimensions, queries_generated,
             queries, idx, acc, made_by, asked_dims, asked_queries, file, writes,
             loaded>>

vars == <<chatVars, genVars>>

NoRef == 0

\* Text is a sequence of characters, so that strip() is computed, not assumed.
Whitespace == {" ", "\t", "\n", "\r"}
Chars == {" ", "\n", "a"}

IsSpace(c) == c \in Whitespace

\* The prompt text, abbreviated; only its identity matters to the function.
SYSTEM_PROMPT == <<"Y", "o", "u", " ", "a", "r", "e">>

Hi == <<"h", "i">>

Roles == {"system", "user", "assistant"}

InputContents == {SYSTEM_PROMPT, Hi}

Message == [role : Roles, content : InputContents]

RECURSIVE SeqsUpTo(_, _)
SeqsUpTo(S, n) ==
    IF n = 0 THEN {<<>>}
    ELSE LET shorter == SeqsUpTo(S, n - 1)
         IN  shorter \cup {Append(s, x) : s \in {t \in shorter : Len(t) = n - 1}, x \in S}

Histories == SeqsUpTo(Message, MaxHist)

Replies == SeqsUpTo(Chars, MaxReply)

RECURSIVE lstrip(_)
lstrip(s) == IF s # <<>> /\ IsSpace(Head(s)) THEN lstrip(Tail(s)) ELSE s

RECURSIVE rstrip(_)
rstrip(s) ==
    IF s # <<>> /\ IsSpace(s[Len(s)]) THEN rstrip(SubSeq(s, 1, Len(s) - 1)) ELSE s

\* str.strip() with no argument
strip(s) == rstrip(lstrip(s))

SystemMessage == [role |-> "system", content |-> SYSTEM_PROMPT]

\* Mutant of NeedsSystemPrompt: only the empty history gets the prompt.
NeedsSystemPromptOnlyEmpty(msgs) == msgs = <<>>

\* utils.py:97  `not messages or messages[0]["role"] != "system"`
NeedsSystemPrompt(msgs) == msgs = <<>> \/ msgs[1].role # "system"

\* Mutant of PrepareMessages: the prompt is prepended unconditionally.
PrepareMessagesAlways(h, m) ==
    [heap |-> Append(h, <<SystemMessage>> \o h[m]), ref |-> Len(h) + 1]

\* utils.py:96-100. `[system] + messages` allocates a list; the else branch
\* aliases the caller's list.
PrepareMessages(h, m) ==
    IF NeedsSystemPrompt(h[m])
    THEN [heap |-> Append(h, <<SystemMessage>> \o h[m]), ref |-> Len(h) + 1]
    ELSE [heap |-> h, ref |-> m]

\* Mutant of AppendReply: list.append on current_messages, returned as is.
AppendReplyInPlace(h, cur, msg) ==
    [heap |-> [h EXCEPT ![cur] = Append(@, msg)], ref |-> cur]

\* utils.py:112-115. `current_messages + [reply]` allocates the returned list.
AppendReply(h, cur, msg) ==
    [heap |-> Append(h, h[cur] \o <<msg>>), ref |-> Len(h) + 1]

\* utils.py:107-114
AssistantMessage(raw) == [role |-> "assistant", content |-> strip(raw)]

ChatStart ==
    /\ \E h \in Histories : heap = <<h>> /\ before = h
    /\ messages = 1
    /\ current_messages = NoRef
    /\ updated_messages = NoRef
    /\ raw_reply = <<>>
    /\ calls = 0
    /\ error = "none"
    /\ turn = 0
    /\ cpc = "idle"

\* utils.py:96-105: build current_messages and issue the one remote call.
GetAgentResponse ==
    /\ UNCHANGED genVars
    /\ cpc = "idle"
    /\ turn < MaxTurns
    /\ LET prep == PrepareMessages(heap, messages)
       IN  /\ heap' = prep.heap
           /\ current_messages' = prep.ref
    /\ calls' = calls + 1
    /\ turn' = turn + 1
    /\ cpc' = "called"
    /\ UNCHANGED <<messages, before, updated_messages, raw_reply, error>>

\* utils.py:107-115: the call returned a reply; strip it, append, return.
CompletionReturns ==
    /\ UNCHANGED genVars
    /\ cpc = "called"
    /\ \E raw \in Replies :
         LET upd == AppendReply(heap, current_messages, AssistantMessage(raw))
         IN  /\ heap' = upd.heap
             /\ updated_messages' = upd.ref
             /\ raw_reply' = raw
    /\ cpc' = "returned"
    /\ UNCHANGED <<messages, before, current_messages, calls, error, turn>>

\* Mutant of CompletionRaises: the failed call is retried.
CompletionRaisesRetry ==
    /\ UNCHANGED genVars
    /\ cpc = "called"
    /\ calls' = calls + 1
    /\ UNCHANGED <<heap, messages, before, current_messages, updated_messages,
                   raw_reply, error, turn, cpc>>

\* utils.py:102-105: litellm.completion raises (auth, rate limit, network);
\* there is no try/except, the exception leaves the function.
CompletionRaises ==
    /\ UNCHANGED genVars
    /\ cpc = "called"
    /\ cpc' = "raised"
    /\ error' = "completion"
    /\ UNCHANGED <<heap, messages, before, current_messages, updated_messages,
                   raw_reply, calls, turn>>

\* utils.py:107-109: the response lacks choices[0].message.content as text
\* (KeyError, IndexError, or None.strip()); the exception leaves the function.
MalformedResponse ==
    /\ UNCHANGED genVars
    /\ cpc = "called"
    /\ cpc' = "raised"
    /\ error' = "malformed"
    /\ UNCHANGED <<heap, messages, before, current_messages, updated_messages,
                   raw_reply, calls, turn>>

\* The caller (not in this repository's backend/utils.py beyond the contract in
\* the docstring, utils.py:79-91): it keeps the returned history, adds the next
\* user message and calls again; after a failure it calls again with its list.
NextTurn ==
    /\ UNCHANGED genVars
    /\ cpc \in {"returned", "raised"}
    /\ turn < MaxTurns
    /\ IF cpc = "returned"
       THEN LET next == heap[updated_messages] \o <<[role |-> "user", content |-> Hi]>>
            IN  /\ heap' = Append(heap, next)
                /\ messages' = Len(heap) + 1
                /\ before' = next
       ELSE UNCHANGED <<heap, messages, before>>
    /\ current_messages' = NoRef
    /\ updated_messages' = NoRef
    /\ raw_reply' = <<>>
    /\ calls' = 0
    /\ error' = "none"
    /\ cpc' = "idle"
    /\ UNCHANGED turn


\* =========================================================================
\* Part 2: scripts/gen_synthetic_evals.py
\* =========================================================================


\* An optional value: None is <<>>, a set value v is <<v>>.
None == <<>>

Some(v) == <<v>>

\* gen_synthetic_evals.py:22-41, in declaration order
FieldNames ==
    <<"cuisine", "dietary_restriction", "available_ingredients", "meal_type",
      "cooking_time", "skill_level", "english_proficiency">>

\* Literal["native", "non-native"]
EnglishLevels == {"native", "non-native"}

DFull ==
    [cuisine |-> Some("Thai"), dietary_restriction |-> Some("vegan"),
     available_ingredients |-> Some("rice"), meal_type |-> Some("lunch"),
     cooking_time |-> Some("30min"), skill_level |-> Some("beginner"),
     english_proficiency |-> Some("native")]

DSparse ==
    [cuisine |-> Some("Thai"), dietary_restriction |-> None,
     available_ingredients |-> None, meal_type |-> None,
     cooking_time |-> None, skill_level |-> None,
     english_proficiency |-> None]

\* Dimensions() with every field at its default
DDefault ==
    [cuisine |-> None, dietary_restriction |-> None,
     available_ingredients |-> None, meal_type |-> None,
     cooking_time |-> None, skill_level |-> None,
     english_proficiency |-> None]

\* The Dimensions values the remote model answers with in this model.
DimensionsPool == {DFull, DSparse}

\* Texts typed by the operator or generated by the remote model.
Texts == {"easy thai lunch", ""}

\* What the operator may type at "Keep? (y/n): ".
Answers == {"y", "n", "Y"}

Digits == <<"0", "1", "2", "3", "4", "5", "6", "7", "8", "9">>

\* str(i) for i >= 0, as csv.writer formats a number
RECURSIVE IntToStr(_)
IntToStr(n) ==
    IF n < 10 THEN Digits[n + 1]
    ELSE IntToStr(n \div 10) \o Digits[(n % 10) + 1]

\* csv.writer writes None as the empty field and a str as itself.
Cell(v) == IF v = None THEN "" ELSE v[1]

Header ==
    <<"id", "query", "cuisine", "dietary_restriction", "available_ingredients",
      "meal_type", "cooking_time", "skill_level", "english_proficiency">>

\* Mutant of Row: enumerate(queries) without the start index.
RowZeroBased(i, q) ==
    <<IntToStr(i - 1), q.query, Cell(q.dimensions.cuisine),
      Cell(q.dimensions.dietary_restriction),
      Cell(q.dimensions.available_ingredients), Cell(q.dimensions.meal_type),
      Cell(q.dimensions.cooking_time), Cell(q.dimensions.skill_level),
      Cell(q.dimensions.english_proficiency)>>

\* gen_synthetic_evals.py:160-172
Row(i, q) ==
    <<IntToStr(i), q.query, Cell(q.dimensions.cuisine),
      Cell(q.dimensions.dietary_restriction),
      Cell(q.dimensions.available_ingredients), Cell(q.dimensions.meal_type),
      Cell(q.dimensions.cooking_time), Cell(q.dimensions.skill_level),
      Cell(q.dimensions.english_proficiency)>>

\* gen_synthetic_evals.py:142-172: the rows the file holds after write_queries.
\* The file is kept as rows of cells: csv.writer's quoting and csv.reader's
\* unquoting of a cell are the csv module's, not this repository's.
write_queries(qs) == <<Header>> \o [k \in 1..Len(qs) |-> Row(k, qs[k])]

Min(a, b) == IF a < b THEN a ELSE b

\* dict(zip(names, values)): pairs by position up to the shorter length,
\* a repeated name keeps its last value.
DictZip(names, values) ==
    LET n == Min(Len(names), Len(values))
    IN  [name \in {names[i] : i \in 1..n} |->
            values[CHOOSE i \in 1..n :
                      /\ names[i] = name
                      /\ \A j \in (i + 1)..n : names[j] # name]]

\* Dimensions(**kw) validates: english_proficiency must be one of the literals;
\* every str is a valid value of the other six fields.
ValidDimensions(kw) ==
    "english_proficiency" \in DOMAIN kw => kw["english_proficiency"] \in EnglishLevels

\* Dimensions(**kw): a field named in kw takes that value, any other field its
\* default None; keys that are no field (pydantic's extra="ignore") are dropped.
MakeDimensions(kw) ==
    [f \in {FieldNames[j] : j \in 1..Len(FieldNames)} |->
        IF f \in DOMAIN kw THEN Some(kw[f]) ELSE None]

\* gen_synthetic_evals.py:183-185: one row to a Query.
\* row[2:] is zipped with field_names from its first name on.
RowKwargs(field_names, row) == DictZip(field_names, SubSeq(row, 3, Len(row)))

\* Mutant of MakeQuery: the Dimensions are not taken from the call.
MakeQueryDefaultDimensions(text, d) == [query |-> text, dimensions |-> DDefault]

\* gen_synthetic_evals.py:129-133 and 86-94: Query(query=q, dimensions=d);
\* generate_query's response takes `dimensions` from the call (FromCallArgs).
MakeQuery(text, d) == [query |-> text, dimensions |-> d]

\* gen_synthetic_evals.py:175-187 on an existing file: next(reader) is the
\* header, every further row becomes a Query; a row that fails validation
\* raises and nothing is returned.
load_queries(f) ==
    LET field_names == f[1]
        rows == Tail(f)
        ok == \A k \in 1..Len(rows) : ValidDimensions(RowKwargs(field_names, rows[k]))
    IN  [ok |-> ok,
         value |-> IF ok
                   THEN [k \in 1..Len(rows) |->
                           MakeQuery(rows[k][2],
                                     MakeDimensions(RowKwargs(field_names, rows[k])))]
                   ELSE <<>>]

\* The --examples file of this model: what an earlier run wrote.
ExamplesFile == write_queries(<<MakeQuery("easy thai lunch", DFull)>>)

\* The --output path before the run: absent, or left by an earlier run.
StaleFile == write_queries(<<MakeQuery("", DSparse)>>)

NotLoaded == [ok |-> FALSE, value |-> <<"not loaded">>]

\* gen_synthetic_evals.py:190-204. -n only enters the prompt text; examples and
\* output are kept as "was a path given".
Args ==
    [manual : BOOLEAN, verify_dims : BOOLEAN, verify_queries : BOOLEAN,
     examples : BOOLEAN, output : BOOLEAN]


GenIdle ==
    /\ examples = <<>>
    /\ dims_generated = <<>>
    /\ dimensions = <<>>
    /\ queries_generated = <<>>
    /\ queries = <<>>
    /\ idx = 1
    /\ acc = <<>>
    /\ made_by = <<>>
    /\ asked_dims = <<>>
    /\ asked_queries = <<>>
    /\ writes = 0
    /\ loaded = NotLoaded

GenStart ==
    /\ args \in Args
    /\ gpc = "start"
    /\ file \in {<<>>, StaleFile}
    /\ GenIdle

\* gen_synthetic_evals.py:136-139: input("Keep? (y/n): ") == "y"
should_keep(answer) == answer = "y"

\* Mutant of ReviewsQueries: --verify-queries is honoured in manual mode too.
ReviewsQueriesAlways(a) == a.verify_queries

\* gen_synthetic_evals.py:222  `not args.manual and args.verify_queries`
ReviewsQueries(a) == ~a.manual /\ a.verify_queries

\* Mutant of Kept: a kept item goes to the front of the result.
KeptPrepend(sofar, item, answer) ==
    IF should_keep(answer) THEN <<item>> \o sofar ELSE sofar

\* One step of `[x for x in xs if should_keep(x)]` (lines 215 and 223).
Kept(sofar, item, answer) ==
    IF should_keep(answer) THEN Append(sofar, item) ELSE sofar

\* gen_synthetic_evals.py:208-211
LoadExamples ==
    /\ UNCHANGED chatVars
    /\ gpc = "start"
    /\ IF args.examples
       THEN LET r == load_queries(ExamplesFile)
            IN  IF r.ok
                THEN examples' = r.value /\ gpc' = "generate_dimensions"
                ELSE examples' = examples /\ gpc' = "failed"
       ELSE examples' = <<>> /\ gpc' = "generate_dimensions"
    /\ UNCHANGED <<args, dims_generated, dimensions, queries_generated, queries,
                   idx, acc, made_by, asked_dims, asked_queries, file, writes,
                   loaded>>

\* gen_synthetic_evals.py:213-214: the remote model answers with a list of
\* Dimensions; nothing checks its length or its content.
GenerateDimensions ==
    /\ UNCHANGED chatVars
    /\ gpc = "generate_dimensions"
    /\ \E ds \in SeqsUpTo(DimensionsPool, MaxDims) :
         /\ dims_generated' = ds
         /\ IF args.verify_dims
            THEN gpc' = "verify_dims" /\ dimensions' = dimensions
            ELSE gpc' = "queries" /\ dimensions' = ds
    /\ idx' = 1
    /\ acc' = <<>>
    /\ UNCHANGED <<args, examples, queries_generated, queries, made_by,
                   asked_dims, asked_queries, file, writes, loaded>>

\* gen_synthetic_evals.py:215, one item: should_keep(d) prompts and answers.
VerifyDimension ==
    /\ UNCHANGED chatVars
    /\ gpc = "verify_dims"
    /\ idx <= Len(dims_generated)
    /\ \E answer \in Answers :
         /\ asked_dims' = Append(asked_dims,
                                 [item |-> dims_generated[idx], answer |-> answer])
         /\ acc' = Kept(acc, dims_generated[idx], answer)
    /\ idx' = idx + 1
    /\ UNCHANGED <<args, gpc, examples, dims_generated, dimensions,
                   queries_generated, queries, made_by, asked_queries, file,
                   writes, loaded>>

\* gen_synthetic_evals.py:215: the comprehension is exhausted, `dimensions` is
\* rebound to the kept items.
VerifyDimsDone ==
    /\ UNCHANGED chatVars
    /\ gpc = "verify_dims"
    /\ idx > Len(dims_generated)
    /\ dimensions' = acc
    /\ gpc' = "queries"
    /\ idx' = 1
    /\ acc' = <<>>
    /\ UNCHANGED <<args, examples, dims_generated, queries_generated, queries,
                   made_by, asked_dims, asked_queries, file, writes, loaded>>

\* gen_synthetic_evals.py:220 with --manual: get_query(d), lines 129-133.
GetQuery ==
    /\ UNCHANGED chatVars
    /\ gpc = "queries"
    /\ idx <= Len(dimensions)
    /\ args.manual
    /\ \E q \in Texts : acc' = Append(acc, MakeQuery(q, dimensions[idx]))
    /\ made_by' = Append(made_by, "manual")
    /\ idx' = idx + 1
    /\ UNCHANGED <<args, gpc, examples, dims_generated, dimensions,
                   queries_generated, queries, asked_dims, asked_queries, file,
                   writes, loaded>>

\* Mutant of GenerateQuery: every generated query is checkpointed to the file.
GenerateQueryCheckpointing ==
    /\ UNCHANGED chatVars
    /\ gpc = "queries"
    /\ idx <= Len(dimensions)
    /\ ~args.manual
    /\ \E q \in Texts : acc' = Append(acc, MakeQuery(q, dimensions[idx]))
    /\ made_by' = Append(made_by, "automated")
    /\ idx' = idx + 1
    /\ file' = IF args.output THEN write_queries(acc') ELSE file
    /\ UNCHANGED <<args, gpc, examples, dims_generated, dimensions,
                   queries_generated, queries, asked_dims, asked_queries,
                   writes, loaded>>

\* gen_synthetic_evals.py:220 without --manual: generate_query(d, examples),
\* lines 101-126; the response's dimensions are the call's argument.
GenerateQuery ==
    /\ UNCHANGED chatVars
    /\ gpc = "queries"
    /\ idx <= Len(dimensions)
    /\ ~args.manual
    /\ \E q \in Texts : acc' = Append(acc, MakeQuery(q, dimensions[idx]))
    /\ made_by' = Append(made_by, "automated")
    /\ idx' = idx + 1
    /\ UNCHANGED <<args, gpc, examples, dims_generated, dimensions,
                   queries_generated, queries, asked_dims, asked_queries, file,
                   writes, loaded>>

\* gen_synthetic_evals.py:219-222: the comprehension is exhausted, `queries`
\* is bound; the review follows only if ReviewsQueries(args).
QueriesDone ==
    /\ UNCHANGED chatVars
    /\ gpc = "queries"
    /\ idx > Len(dimensions)
    /\ queries_generated' = acc
    /\ IF ReviewsQueries(args)
       THEN gpc' = "verify_queries" /\ queries' = queries
       ELSE gpc' = "persist" /\ queries' = acc
    /\ idx' = 1
    /\ acc' = <<>>
    /\ UNCHANGED <<args, examples, dims_generated, dimensions, made_by,
                   asked_dims, asked_queries, file, writes, loaded>>

\* gen_synthetic_evals.py:223, one item: should_keep(q) prompts and answers.
VerifyQuery ==
    /\ UNCHANGED chatVars
    /\ gpc = "verify_queries"
    /\ idx <= Len(queries_generated)
    /\ \E answer \in Answers :
         /\ asked_queries' = Append(asked_queries,
                                    [item |-> queries_generated[idx], answer |-> answer])
         /\ acc' = Kept(acc, queries_generated[idx], answer)
    /\ idx' = idx + 1
    /\ UNCHANGED <<args, gpc, examples, dims_generated, dimensions,
                   queries_generated, queries, made_by, asked_dims, file, writes,
                   loaded>>

\* gen_synthetic_evals.py:223: the comprehension is exhausted.
VerifyQueriesDone ==
    /\ UNCHANGED chatVars
    /\ gpc = "verify_queries"
    /\ idx > Len(queries_generated)
    /\ queries' = acc
    /\ gpc' = "persist"
    /\ idx' = 1
    /\ acc' = <<>>
    /\ UNCHANGED <<args, examples, dims_generated, dimensions, queries_generated,
                   made_by, asked_dims, asked_queries, file, writes, loaded>>

\* gen_synthetic_evals.py:224-230: write if --output was given, then print.
Persist ==
    /\ UNCHANGED chatVars
    /\ gpc = "persist"
    /\ IF args.output
       THEN file' = write_queries(queries) /\ writes' = writes + 1
       ELSE UNCHANGED <<file, writes>>
    /\ gpc' = "done"
    /\ UNCHANGED <<args, examples, dims_generated, dimensions, queries_generated,
                   queries, idx, acc, made_by, asked_dims, asked_queries, loaded>>

\* Any step of main may raise (a remote call fails, the examples file cannot
\* be opened, input() hits end of file, the output cannot be opened); main
\* catches nothing (lines 207-230), the run ends there.
Fail ==
    /\ UNCHANGED chatVars
    /\ gpc \notin {"done", "failed"}
    /\ gpc' = "failed"
    /\ UNCHANGED <<args, examples, dims_generated, dimensions, queries_generated,
                   queries, idx, acc, made_by, asked_dims, asked_queries, file,
                   writes, loaded>>

\* gen_synthetic_evals.py:175-187 on the file the run wrote (a later run given
\* it as --examples).
LoadWritten ==
    /\ UNCHANGED chatVars
    /\ gpc = "done"
    /\ args.output
    /\ loaded = NotLoaded
    /\ loaded' = load_queries(file)
    /\ UNCHANGED <<args, gpc, examples, dims_generated, dimensions,
                   queries_generated, queries, idx, acc, made_by, asked_dims,
                   asked_queries, file, writes>>

NextGen ==
    \/ LoadExamples
    \/ GenerateDimensions
    \/ VerifyDimension
    \/ VerifyDimsDone
    \/ GetQuery
    \/ GenerateQuery
    \/ QueriesDone
    \/ VerifyQuery
    \/ VerifyQueriesDone
    \/ Persist
    \/ Fail
    \/ LoadWritten

\* The generator has not been started (the state SpecChat keeps it in).
GenOff ==
    /\ args = [manual |-> FALSE, verify_dims |-> FALSE, verify_queries |-> FALSE,
               examples |-> FALSE, output |-> FALSE]
    /\ gpc = "off"
    /\ file = <<>>
    /\ GenIdle

\* No call of get_agent_response is made (the state SpecGen keeps it in).
ChatOff ==
    /\ heap = <<>>
    /\ before = <<>>
    /\ messages = NoRef
    /\ current_messages = NoRef
    /\ updated_messages = NoRef
    /\ raw_reply = <<>>
    /\ calls = 0
    /\ error = "none"
    /\ turn = 0
    /\ cpc = "off"

InitGen == ChatOff /\ GenStart

SpecGen == InitGen /\ [][NextGen]_vars

InitChat == GenOff /\ ChatStart

NextChat ==
    \/ GetAgentResponse
    \/ CompletionReturns
    \/ CompletionRaises
    \/ MalformedResponse
    \/ NextTurn

SpecChat == InitChat /\ [][NextChat]_vars

\* =========================================================================
\* Properties of get_agent_response (checked under SpecChat)
\* =========================================================================

\* t is raw without its leading and trailing whitespace, stated without strip.
IsStripOf(t, raw) ==
    \E i \in 1..(Len(raw) + 1), j \in 0..Len(raw) :
        /\ t = SubSeq(raw, i, j)
        /\ \A k \in 1..(i - 1) : IsSpace(raw[k])
        /\ \A k \in (j + 1)..Len(raw) : IsSpace(raw[k])
        /\ t # <<>> => ~IsSpace(t[1]) /\ ~IsSpace(t[Len(t)])

LacksLeadingSystem(h) == h = <<>> \/ h[1].role # "system"

\* C2: when the input is empty or does not start with a system message and the
\* remote call succeeds, the output is the fixed system message, then the input
\* unchanged and in order, then exactly one assistant message; an empty input
\* gives two messages.
C2_SystemPromptPrepended ==
    (cpc = "returned" /\ LacksLeadingSystem(before)) =>
        LET out == heap[updated_messages]
        IN  /\ Len(out) = Len(before) + 2
            /\ out[1].role = "system"
            /\ out[1].content = SYSTEM_PROMPT
            /\ SubSeq(out, 2, Len(before) + 1) = before
            /\ out[Len(out)].role = "assistant"
            /\ before = <<>> => Len(out) = 2

C2_Witness ==
    /\ cpc = "returned"
    /\ Len(before) = 2
    /\ before[1].role = "user"
    /\ before[2].role = "system"
    /\ Len(heap[updated_messages]) = 4

\* C3: when the input starts with a system message, the output is the input
\* followed by exactly one assistant message holding the stripped reply; the
\* leading message is kept as it is and no system message is prepended.
C3_LeadingSystemPreserved ==
    (cpc = "returned" /\ ~LacksLeadingSystem(before)) =>
        LET out == heap[updated_messages]
        IN  /\ Len(out) = Len(before) + 1
            /\ out[1] = before[1]
            /\ SubSeq(out, 1, Len(before)) = before
            /\ out[Len(out)].role = "assistant"
            /\ IsStripOf(out[Len(out)].content, raw_reply)

C3_Witness ==
    /\ cpc = "returned"
    /\ before # <<>>
    /\ before[1] = [role |-> "system", content |-> Hi]
    /\ raw_reply = <<" ", "a">>
    /\ heap[updated_messages][Len(before) + 1].content = <<"a">>

\* C6: an invocation makes exactly one remote call, and when that call fails
\* the exception leaves the function: nothing is returned and no list holding
\* an assistant reply is produced.
C6_FailurePropagates ==
    /\ cpc \in {"called", "returned", "raised"} => calls = 1
    /\ cpc = "raised" =>
          /\ updated_messages = NoRef
          /\ error # "none"
          /\ \A r \in 1..Len(heap) :
                r > messages => heap[r] = <<SystemMessage>> \o before

C6_Witness ==
    /\ cpc = "raised"
    /\ error = "completion"
    /\ Len(before) = 2
    /\ Len(heap) = 2

\* C10: the caller's list is never changed by the call, whether the call
\* returns or fails and also when that very list is the outgoing history; the
\* returned list is another list, and it is a function of this call's input
\* and reply alone.
C10_InputUnchanged ==
    /\ heap[messages] = before
    /\ cpc = "returned" =>
          /\ updated_messages # messages
          /\ updated_messages # current_messages
          /\ LET out == heap[updated_messages]
                 sent == IF LacksLeadingSystem(before)
                         THEN <<SystemMessage>> \o before ELSE before
             IN  /\ SubSeq(out, 1, Len(sent)) = sent
                 /\ Len(out) = Len(sent) + 1
                 /\ IsStripOf(out[Len(out)].content, raw_reply)

C10_Witness ==
    /\ cpc = "returned"
    /\ current_messages = messages
    /\ turn = 2
    /\ Len(heap[messages]) = Len(before)

\* =========================================================================
\* Properties of the generator (checked under SpecGen)
\* =========================================================================

FieldSet == {FieldNames[j] : j \in 1..Len(FieldNames)}

\* C1: reading back the file write_queries wrote gives, item by item, the
\* original value of every set field and None for every unset field.
C1_RoundTrip ==
    loaded # NotLoaded =>
        /\ loaded.ok
        /\ Len(loaded.value) = Len(queries)
        /\ \A k \in 1..Len(queries) : \A f \in FieldSet :
              loaded.value[k].dimensions[f] = queries[k].dimensions[f]

\* The items of src whose prompt (the first n of asked) was answered "y",
\* in the order of src.
RECURSIVE KeptOf(_, _, _)
KeptOf(src, asked, n) ==
    IF n = 0 THEN <<>>
    ELSE IF asked[n].answer = "y"
         THEN Append(KeptOf(src, asked, n - 1), src[n])
         ELSE KeptOf(src, asked, n - 1)

PromptedInOrder(src, asked) ==
    /\ Len(asked) <= Len(src)
    /\ \A k \in 1..Len(asked) : asked[k].item = src[k]

\* C5: the review prompts once per item in list order and the filtered list is
\* exactly the items answered "y", in their original order; other items are
\* dropped, none is added, repeated or changed.
C5_ReviewGateFilters ==
    /\ PromptedInOrder(dims_generated, asked_dims)
    /\ PromptedInOrder(queries_generated, asked_queries)
    /\ (args.verify_dims /\ gpc \in {"queries", "verify_queries", "persist", "done"}) =>
          /\ Len(asked_dims) = Len(dims_generated)
          /\ dimensions = KeptOf(dims_generated, asked_dims, Len(dims_generated))
    /\ (~args.manual /\ args.verify_queries /\ gpc \in {"persist", "done"}) =>
          /\ Len(asked_queries) = Len(queries_generated)
          /\ queries = KeptOf(queries_generated, asked_queries, Len(queries_generated))

C5_Witness ==
    /\ gpc = "done"
    /\ args.verify_dims
    /\ Len(dims_generated) = 2
    /\ Len(dimensions) = 2
    /\ dimensions[1] # dimensions[2]
    /\ Len(asked_queries) = 2
    /\ asked_queries[1].answer = "n"
    /\ asked_queries[2].answer = "y"
    /\ Len(queries) = 1

Completed ==
    /\ Len(queries_generated) = Len(dimensions)
    /\ args.verify_dims => Len(asked_dims) = Len(dims_generated)
    /\ (~args.manual /\ args.verify_queries) =>
          Len(asked_queries) = Len(queries_generated)

\* C4: the output file changes, and write_queries runs, only in the one step
\* that ends a run whose generation and reviews are all complete, and at most
\* once; a run that failed earlier has written nothing.
C4_PersistOnceAtEnd ==
    [][(file' # file \/ writes' # writes) =>
          /\ gpc = "persist"
          /\ gpc' = "done"
          /\ writes = 0
          /\ writes' = 1
          /\ Completed]_vars

C4_Witness ==
    /\ gpc = "failed"
    /\ args.output
    /\ ~args.manual
    /\ Len(acc) = 1
    /\ Len(dimensions) = 2
    /\ file = StaleFile
    /\ writes = 0

\* C7: with --manual no query is ever put to the Review Gate and every entered
\* query is in the final list, whether or not --verify-queries is given.
C7_ManualIgnoresVerifyQueries ==
    args.manual =>
        /\ asked_queries = <<>>
        /\ gpc # "verify_queries"
        /\ gpc \in {"persist", "done"} =>
              /\ queries = queries_generated
              /\ Len(queries) = Len(dimensions)

C7_Witness ==
    /\ gpc = "done"
    /\ args.manual
    /\ args.verify_queries
    /\ Len(queries) = 2

\* C8: the file written is the header row and then one row per query in list
\* order; row k holds the id k (counted from 1 over the final list), the query
\* text and the seven fields in header order.
C8_RowsWritten ==
    (gpc = "done" /\ args.output) =>
        /\ Len(file) = Len(queries) + 1
        /\ file[1] = <<"id", "query">> \o FieldNames
        /\ \A k \in 1..Len(queries) :
              /\ Len(file[k + 1]) = 9
              /\ file[k + 1][1] = IntToStr(k)
              /\ file[k + 1][2] = queries[k].query
              /\ \A j \in 1..7 :
                    file[k + 1][j + 2] = Cell(queries[k].dimensions[FieldNames[j]])

C8_Witness ==
    /\ gpc = "done"
    /\ args.output
    /\ Len(asked_dims) = 2
    /\ asked_dims[1].answer = "n"
    /\ Len(queries) = 1
    /\ queries[1].dimensions = DFull
    /\ file[2][1] = "1"

\* C9: one strategy produces every query of a run, and it produces one query
\* per surviving Dimensions: before any query review the query list is as long
\* as the dimension list and its i-th query carries the i-th Dimensions.
C9_OneQueryPerDimensions ==
    /\ \A i \in 1..Len(made_by) :
          made_by[i] = IF args.manual THEN "manual" ELSE "automated"
    /\ gpc \in {"verify_queries", "persist", "done"} =>
          /\ Len(queries_generated) = Len(dimensions)
          /\ Len(made_by) = Len(dimensions)
          /\ \A i \in 1..Len(dimensions) :
                queries_generated[i].dimensions = dimensions[i]

C9_Witness ==
    /\ gpc = "verify_queries"
    /\ args.verify_dims
    /\ Len(dims_generated) = 2
    /\ Len(dimensions) = 1
    /\ Len(queries_generated) = 1
    /\ queries_generated[1].dimensions = DSparse

====
